---- MODULE Spec2Model ----
(***************************************************************************)
(* A model of git-r.py (src/git-r.py): the repository locator              *)
(* find_git_repos, the process runner run_git, and the dispatcher and      *)
(* output aggregator of main().                                            *)
(***************************************************************************)
EXTENDS Integers, Sequences, FiniteSets, TLC

(***************************************************************************)
(* Bounds of the model.                                                    *)
(***************************************************************************)
\* longest list of arguments for git that is explored
MaxArgs == 3

\* largest value of the -d/--depth argument that is explored
MaxDepth == 3

\* number of targets (repositories) of a dispatcher run
NTargets == 2

\* longest stdout and stderr stream a child of the single-runner model writes
MaxOut == 2
MaxErr == 1

\* longest stdout and stderr stream behind a result handed to the aggregator
MaxAggOut == 4
MaxAggErr == 2

\* os.read(fd, 512): the chunk size, scaled down to the streams explored
ReadSize == 2

(***************************************************************************)
(* Directories.  A directory is the sequence of child indices leading to   *)
(* it from the starting directory <<>>.                                    *)
(***************************************************************************)
Root == <<>>

\* every directory that may exist in an explored tree
AllDirs == { <<>>, <<1>>, <<2>>, <<1, 1>>, <<1, 2>>, <<2, 1>>, <<1, 1, 1>> }

IsPrefix(p, d) == Len(p) <= Len(d) /\ SubSeq(d, 1, Len(p)) = p

IsProperPrefix(p, d) == Len(p) < Len(d) /\ IsPrefix(p, d)

\* a tree is a set of directories closed under "parent of"
Trees == { T \in SUBSET AllDirs :
             /\ Root \in T
             /\ \A d \in T : \A p \in AllDirs : IsPrefix(p, d) => p \in T }

VARIABLES
  \* ---- find_git_repos ----
  tree,              \* the directories that exist below the starting directory
  isRepo,            \* the directories on which `git rev-parse` exits 0
  probeErr,          \* the directories on which subprocess.run raises OSError
  depth,             \* the depth argument
  fpc,               \* position of find_git_repos
  futures_repo_map,  \* directory of each pending probe future -> its cur_depth
  snapshot,          \* the futures as_completed() is iterating over
  probed,            \* the futures whose is_git_repo call has returned
  repos,             \* the list being built
  consumed_n,        \* how often each probe future's result was taken
  \* ---- the run's arguments ----
  cmd,               \* "grep" or "passthrough": which command builder is used
  prefix,            \* args.prefix: "None", "repo", "line" or "no"
  use_color,         \* args.use_color
  git_args,          \* the arguments passed on to git
  isatty,            \* sys.stdout.isatty()
  unbuffered,        \* sys.stdout.buffer and sys.stderr.buffer are the raw
                     \* streams (python -u, PYTHONUNBUFFERED): a write goes
                     \* to the descriptor at once
  prog,              \* per target, what its child does: bytes written, exit code
  spawn_ok,          \* per target, whether subprocess.Popen succeeds
  \* ---- run_git, one invocation per target ----
  fut,               \* per target, the future: its state and its outcome
  runner,            \* per target, the locals of run_git
  child,             \* per target, the child process
  pty,               \* per target, bytes waiting at masters[1] and masters[2]
  die,               \* the threading.Event
  \* ---- main ----
  mainPc,            \* position of main
  pend,              \* the return or exception travelling out of the with block
  exit,              \* how main ended: exit code and fault
  consumed,          \* the futures as_completed has yielded
  cur,               \* the loop variables of the aggregation: target, stream, record
  wlog,              \* every buffer.write made, in order: stream, target, bytes
  diag,              \* targets named in an "ERROR: in repo" diagnostic
  hist               \* history: interrupt seen, length of wlog when die was
                     \* set, the <<target, stream>> pairs flushed, the stream
                     \* on which BrokenPipeError was raised (0: none), the
                     \* streams redirected to os.devnull

findVars == << tree, isRepo, probeErr, depth, fpc, futures_repo_map, snapshot, probed,
               repos, consumed_n >>

argVars == << cmd, prefix, use_color, git_args, isatty, unbuffered, prog,
             spawn_ok >>

runVars == << fut, runner, child, pty >>

mainVars == << mainPc, pend, exit, consumed, cur, wlog, diag, hist >>

vars == << findVars, argVars, runVars, die, mainVars >>

(***************************************************************************)
(* Byte strings.  A byte string is a sequence of tokens; each token stands *)
(* for one byte, or for a byte string that is never split (a path, an ANSI *)
(* escape sequence).                                                       *)
(***************************************************************************)
LF == "\n"

CR == "\r"

COLOR_GREEN == "ESC[32m"

COLOR_RESET == "ESC[0m"

Min(a, b) == IF a <= b THEN a ELSE b

SeqsUpTo(S, n) == UNION { [1..k -> S] : k \in 0..n }

\* the first n tokens of b, and the rest
Take(b, n) == SubSeq(b, 1, Min(n, Len(b)))

Drop(b, n) == SubSeq(b, Min(n, Len(b)) + 1, Len(b))

\* the pty's output processing (the termios the pty is opened with has
\* OPOST|ONLCR set and run_git never changes it): what a master end delivers
\* for the bytes written to the slave end
RECURSIVE PtyOut(_)
PtyOut(b) ==
  IF b = << >> THEN << >>
  ELSE (IF Head(b) = LF THEN << CR, LF >> ELSE << Head(b) >>) \o PtyOut(Tail(b))

\* length of the first line of a non-empty byte string, terminator included
\* (bytes.splitlines breaks at \n, \r and \r\n)
LineEnd(b) ==
  LET ends == { i \in 1..Len(b) : b[i] \in {LF, CR} }
  IN  IF ends = {} THEN Len(b)
      ELSE LET i == CHOOSE k \in ends : \A j \in ends : k <= j
           IN  IF b[i] = CR /\ i < Len(b) /\ b[i + 1] = LF THEN i + 1 ELSE i

\* bytes.splitlines(keepends=True)
RECURSIVE splitlines(_)
splitlines(b) ==
  IF b = << >> THEN << >>
  ELSE << Take(b, LineEnd(b)) >> \o splitlines(Drop(b, LineEnd(b)))

\* b"".join(records)
RECURSIVE Join(_)
Join(records) ==
  IF records = << >> THEN << >> ELSE Head(records) \o Join(Tail(records))

(***************************************************************************)
(* Targets, channels, descriptors, exit statuses                           *)
(***************************************************************************)
Targets == 1..NTargets

\* 1 is masters[1] (the child's stdout), 2 is masters[2] (its stderr)
Chan == {1, 2}

Masters == { "m0", "m1", "m2" }

Slaves == { "s0", "s1", "s2" }

SIGKILL == 9

\* exit codes a child of the single-runner model may exit with
ExitCodes == { 0, 1, 2, 128 }

\* str(repo.relative_to(args.cwd)) of each target
RelPaths == << "foo/bar", "baz", "qux/quux", "corge" >>

RelPath(t) == << RelPaths[t] >>

NoFuture == [ state |-> "absent", kind |-> "none", out |-> << >>, err |-> << >>,
              msg |-> << >> ]

\* fds: the descriptors the call holds open; nclose: how often os.close was
\* called on each descriptor the call opened; late: die was set when the
\* call began
NoRunner == [ pc |-> "idle", readable |-> << >>, results |-> << << >>, << >> >>,
              returncode |-> 0, fds |-> {},
              nclose |-> [ fd \in Masters \cup Slaves |-> 0 ], late |-> FALSE ]

NoChild == [ st |-> "unborn", todo |-> << << >>, << >> >>,
             open |-> << FALSE, FALSE >>, sigint |-> FALSE ]

NoProg == [ out |-> << >>, err |-> << >>, rc |-> 0, chunk |-> 1, closes |-> FALSE ]

\* the state of the run's variables while no command has been dispatched
NoTargets ==
  /\ prog = [ t \in Targets |-> NoProg ]
  /\ spawn_ok = [ t \in Targets |-> TRUE ]
  /\ fut = [ t \in Targets |-> NoFuture ]
  /\ runner = [ t \in Targets |-> NoRunner ]
  /\ child = [ t \in Targets |-> NoChild ]
  /\ pty = [ t \in Targets |-> << << >>, << >> >> ]

NoMain ==
  /\ mainPc = "off"
  /\ pend = [ code |-> 0, fault |-> "none" ]
  /\ exit = [ code |-> 0, fault |-> "none" ]
  /\ consumed = {}
  /\ cur = [ t |-> 0, s |-> 0, r |-> 0 ]
  /\ wlog = << >>
  /\ diag = << >>
  /\ hist = [ interrupted |-> FALSE, wlenAtDie |-> 0, flushed |-> {},
             epipe |-> 0, devnull |-> {} ]

NoRun ==
  /\ cmd = "grep"
  /\ prefix = "None"
  /\ use_color = FALSE
  /\ git_args = << "--color=never" >>
  /\ isatty = FALSE
  /\ unbuffered = FALSE
  /\ NoTargets
  /\ die = FALSE
  /\ NoMain

NoFind ==
  /\ tree = { Root }
  /\ isRepo = {}
  /\ probeErr = {}
  /\ depth = 0
  /\ fpc = "off"
  /\ futures_repo_map = << >>
  /\ snapshot = {}
  /\ probed = {}
  /\ repos = << >>
  /\ consumed_n = [ d \in AllDirs |-> 0 ]

(***************************************************************************)
(* find_git_repos                                                          *)
(***************************************************************************)
\* is_git_repo(d): the exit status of the probe, as a boolean
is_git_repo(d) == d \in isRepo

\* [d for d in directory.iterdir() if d.is_dir()]
SubDirs(directory) ==
  { d \in tree : Len(d) = Len(directory) + 1 /\ IsPrefix(directory, d) }

\* the dict {ex.submit(is_git_repo, d): (d, cur_depth) for d in ...}
Submitted(directory, cur_depth) ==
  [ d \in SubDirs(directory) |-> cur_depth ]

\* dict.update
Update(m, n) ==
  [ d \in (DOMAIN m) \cup (DOMAIN n) |-> IF d \in DOMAIN n THEN n[d] ELSE m[d] ]

\* dict.pop leaving the entry in place
PopMutant(m, d) == m

\* dict.pop, the remaining dict
Pop(m, d) == [ e \in (DOMAIN m) \ {d} |-> m[e] ]

\* the test that decides whether a non-repository is expanded (line 55)
ExpandMutant(cur_depth) == cur_depth >= 0

Expand(cur_depth) == cur_depth > 0

\* lines 29-31: subprocess.run raises instead of returning an exit status
Raises(d) == d \in probeErr

\* the call find_git_repos(parent, depth) on a tree of directories
FindEntry ==
  /\ tree \in Trees
  /\ isRepo \in SUBSET tree
  /\ depth \in 0..MaxDepth
  /\ fpc = "start"
  /\ futures_repo_map = << >>
  /\ snapshot = {}
  /\ probed = {}
  /\ repos = << >>
  /\ consumed_n = [ d \in AllDirs |-> 0 ]
  /\ NoRun

\* every probe returns an exit status
InitFind == FindEntry /\ probeErr = {}

\* at most one directory's probe cannot run
InitFindErr == FindEntry /\ \E E \in SUBSET tree : Cardinality(E) <= 1 /\ probeErr = E

\* lines 36-47: the probe of the starting directory and the first wave
FindStart ==
  /\ fpc = "start"
  /\ IF Raises(Root)
       THEN \* line 37: the exception of the synchronous probe leaves the function
            /\ fpc' = "raised"
            /\ UNCHANGED << repos, futures_repo_map >>
     ELSE IF is_git_repo(Root)
       THEN /\ repos' = << Root >>
            /\ fpc' = "done"
            /\ UNCHANGED futures_repo_map
       ELSE IF depth < 1
         THEN /\ repos' = << >>
              /\ fpc' = "done"
              /\ UNCHANGED futures_repo_map
         ELSE /\ repos' = << >>
              /\ futures_repo_map' = Submitted(Root, depth - 1)
              /\ fpc' = "while"
  /\ UNCHANGED << tree, isRepo, probeErr, depth, snapshot, probed, consumed_n >>
  /\ UNCHANGED << argVars, runVars, die, mainVars >>

\* a pool worker returns from is_git_repo(d)
ProbeComplete(d) ==
  /\ d \in DOMAIN futures_repo_map
  /\ d \notin probed
  /\ probed' = probed \cup {d}
  /\ UNCHANGED << tree, isRepo, probeErr, depth, fpc, futures_repo_map, snapshot,
                  repos, consumed_n >>
  /\ UNCHANGED << argVars, runVars, die, mainVars >>

\* lines 49-50: while futures_repo_map: as_completed(list(futures_repo_map))
FindWhile ==
  /\ fpc = "while"
  /\ IF DOMAIN futures_repo_map # {}
       THEN /\ snapshot' = DOMAIN futures_repo_map
            /\ fpc' = "for"
       ELSE /\ snapshot' = {}
            /\ fpc' = "done"
  /\ UNCHANGED << tree, isRepo, probeErr, depth, futures_repo_map, probed, repos,
                  consumed_n >>
  /\ UNCHANGED << argVars, runVars, die, mainVars >>

\* lines 50-60: as_completed yields the completed future of d
FindConsume(d) ==
  /\ fpc = "for"
  /\ d \in snapshot
  /\ d \in probed
  /\ IF Raises(d)
       THEN \* line 51: future.result() re-raises; the with block is left
            /\ fpc' = "unwind"
            /\ UNCHANGED << repos, futures_repo_map, snapshot >>
       ELSE LET cur_depth == futures_repo_map[d]
                rest == Pop(futures_repo_map, d)
            IN  /\ IF is_git_repo(d)
                     THEN /\ repos' = Append(repos, d)
                          /\ futures_repo_map' = rest
                     ELSE IF Expand(cur_depth)
                       THEN /\ futures_repo_map' =
                                 Update(rest, Submitted(d, cur_depth - 1))
                            /\ UNCHANGED repos
                       ELSE /\ futures_repo_map' = rest
                            /\ UNCHANGED repos
                /\ snapshot' = snapshot \ {d}
                /\ fpc' = IF snapshot' = {} THEN "while" ELSE "for"
  /\ consumed_n' = [ consumed_n EXCEPT ![d] = @ + 1 ]
  /\ UNCHANGED << tree, isRepo, probeErr, depth, probed >>
  /\ UNCHANGED << argVars, runVars, die, mainVars >>

\* line 44: leaving the with block waits for the probes still queued or
\* running; then the exception leaves find_git_repos and no list is returned
FindRaise ==
  /\ fpc = "unwind"
  /\ DOMAIN futures_repo_map \subseteq probed
  /\ fpc' = "raised"
  /\ UNCHANGED << tree, isRepo, probeErr, depth, futures_repo_map, snapshot,
                  probed, repos, consumed_n >>
  /\ UNCHANGED << argVars, runVars, die, mainVars >>

NextFind ==
  \/ FindStart
  \/ FindWhile
  \/ \E d \in AllDirs : ProbeComplete(d)
  \/ \E d \in AllDirs : FindConsume(d)

SpecFind == InitFind /\ [][NextFind]_vars

\* the probes are run by pool threads and the loop by the calling thread
FairSpecFind == SpecFind /\ WF_vars(NextFind)

NextFindErr == NextFind \/ FindRaise

\* find_git_repos on a tree in which a probe may be unable to run
SpecFindErr == InitFindErr /\ [][NextFindErr]_vars

(***************************************************************************)
(* The child process of a target and its pseudo-terminals                  *)
(***************************************************************************)
\* the child writes the next bytes of its stdout (ch = 1) or stderr (ch = 2)
ChildWrite(t, ch) ==
  /\ child[t].st = "alive"
  /\ child[t].open[ch]
  /\ child[t].todo[ch] # << >>
  /\ pty' = [ pty EXCEPT ![t][ch] = @ \o PtyOut(Take(child[t].todo[ch], prog[t].chunk)) ]
  /\ child' = [ child EXCEPT ![t].todo[ch] = Drop(@, prog[t].chunk) ]
  /\ UNCHANGED << findVars, argVars, fut, runner, die, mainVars >>

\* the child closes its stdout or stderr and keeps running
ChildClose(t, ch) ==
  /\ prog[t].closes
  /\ child[t].st = "alive"
  /\ child[t].open[ch]
  /\ child[t].todo[ch] = << >>
  /\ child' = [ child EXCEPT ![t].open[ch] = FALSE ]
  /\ UNCHANGED << findVars, argVars, fut, runner, pty, die, mainVars >>

\* the child exits with its exit code; its descriptors are closed with it
ChildExit(t) ==
  /\ child[t].st = "alive"
  /\ \A ch \in Chan : child[t].open[ch] => child[t].todo[ch] = << >>
  /\ child' = [ child EXCEPT ![t].st = "exited", ![t].open = << FALSE, FALSE >> ]
  /\ UNCHANGED << findVars, argVars, fut, runner, pty, die, mainVars >>

(***************************************************************************)
(* run_git                                                                 *)
(***************************************************************************)
ok_returncodes == { 0 }

\* grep_command passes ignore_returncodes=(1,), default_command passes none
ignore_returncodes == IF cmd = "grep" THEN { 1 } ELSE {}

\* lines 164-169 with the ok and ignored sets exchanged
ClassifyMutant(returncode) ==
  IF returncode \in ignore_returncodes THEN "result"
  ELSE IF returncode \in ok_returncodes THEN "None"
  ELSE "GitError"

\* lines 164-169: what run_git does with the exit status
Classify(returncode) ==
  IF returncode \in ok_returncodes THEN "result"
  ELSE IF returncode \in ignore_returncodes THEN "None"
  ELSE "GitError"

\* lines 162-169: the value run_git returns or the exception it raises
Outcome(kind, results) ==
  [ state |-> "finished",
    kind |-> kind,
    out |-> IF kind = "result" THEN splitlines(results[1]) ELSE << >>,
    err |-> IF kind = "result" THEN splitlines(results[2]) ELSE << >>,
    msg |-> IF kind = "GitError" THEN results[2] ELSE << >> ]

\* select reports a master when bytes wait in it or every slave end is closed
Ready(t, ch) == pty[t][ch] # << >> \/ ~ child[t].open[ch]

\* list.remove
Remove(list, x) == SelectSeq(list, LAMBDA y : y # x)

InList(list, x) == \E i \in 1..Len(list) : list[i] = x

\* a pool thread takes the future of t and runs lines 130-141
WorkerStart(t) ==
  /\ fut[t].state = "pending"
  /\ IF spawn_ok[t]
       THEN /\ fut' = [ fut EXCEPT ![t].state = "running" ]
            /\ child' = [ child EXCEPT ![t] =
                 [ st |-> "alive", todo |-> << prog[t].out, prog[t].err >>,
                   open |-> << TRUE, TRUE >>, sigint |-> FALSE ] ]
            /\ runner' = [ runner EXCEPT ![t] =
                 [ pc |-> "loop", readable |-> << 1, 2 >>,
                   results |-> << << >>, << >> >>, returncode |-> 0,
                   fds |-> Masters,
                   nclose |-> [ fd \in Masters \cup Slaves |->
                                  IF fd \in Slaves THEN 1 ELSE 0 ],
                   late |-> die ] ]
       ELSE \* Popen raises: nothing closes the six descriptors
            /\ fut' = [ fut EXCEPT ![t] = Outcome("OSError", << << >>, << >> >>) ]
            /\ runner' = [ runner EXCEPT ![t].pc = "done",
                                         ![t].fds = Masters \cup Slaves,
                                         ![t].late = die ]
            /\ UNCHANGED child
  /\ UNCHANGED << findVars, argVars, pty, die, mainVars >>

\* lines 155-169: the finally block and the classification; `cancelled` is
\* whether `return None` of line 146 is being executed
Finish(t, cancelled) ==
  LET alive == child[t].st = "alive"
      returncode == IF alive THEN 0 - SIGKILL ELSE prog[t].rc
  IN  /\ child' = [ child EXCEPT ![t].st = IF alive THEN "killed" ELSE @,
                                 ![t].open = << FALSE, FALSE >>,
                                 ![t].sigint = cancelled ]
      /\ runner' = [ runner EXCEPT ![t].pc = "done",
                                   ![t].returncode = returncode,
                                   ![t].fds = @ \ Masters,
                                   ![t].nclose = [ fd \in Masters \cup Slaves |->
                                       IF fd \in Masters THEN @[fd] + 1 ELSE @[fd] ] ]
      /\ fut' = [ fut EXCEPT ![t] =
                    IF cancelled THEN Outcome("None", runner[t].results)
                    ELSE Outcome(Classify(returncode), runner[t].results) ]

\* lines 143-146: the loop condition and the test of the flag
RunLoop(t) ==
  /\ runner[t].pc = "loop"
  /\ IF runner[t].readable = << >>
       THEN Finish(t, FALSE)
       ELSE IF die
         THEN Finish(t, TRUE)
         ELSE /\ runner' = [ runner EXCEPT ![t].pc = "select" ]
              /\ UNCHANGED << fut, child >>
  /\ UNCHANGED << findVars, argVars, pty, die, mainVars >>

\* lines 148-154: select returns once a channel is ready; every ready channel
\* is read once, at most ReadSize bytes.  A channel whose slave end has been
\* closed by every holder reads as the empty byte string (line 151), the
\* end-of-file behaviour the loop is written for.
RunSelectRead(t) ==
  /\ runner[t].pc = "select"
  /\ \E ch \in Chan : InList(runner[t].readable, ch) /\ Ready(t, ch)
  /\ LET ready == SelectSeq(runner[t].readable, LAMBDA ch : Ready(t, ch))
         data == [ ch \in Chan |-> IF InList(ready, ch)
                                     THEN Take(pty[t][ch], ReadSize) ELSE << >> ]
     IN  /\ pty' = [ pty EXCEPT ![t] =
                       [ ch \in Chan |-> IF InList(ready, ch)
                                           THEN Drop(pty[t][ch], ReadSize)
                                           ELSE pty[t][ch] ] ]
         /\ runner' = [ runner EXCEPT
              ![t].pc = "loop",
              ![t].results = [ ch \in Chan |-> @[ch] \o data[ch] ],
              ![t].readable = SelectSeq(@, LAMBDA ch :
                                  ~ (InList(ready, ch) /\ data[ch] = << >>)) ]
  /\ UNCHANGED << findVars, argVars, fut, child, die, mainVars >>

\* main of another run_git's failure: line 251, seen from one runner
EnvSetDie ==
  /\ ~ die
  /\ die' = TRUE
  /\ UNCHANGED << findVars, argVars, runVars, mainVars >>

InitRun ==
  /\ NoFind
  /\ NoMain
  /\ cmd \in { "grep", "passthrough" }
  /\ prefix = "None"
  /\ use_color = FALSE
  /\ git_args = << "--color=never" >>
  /\ isatty = FALSE
  /\ unbuffered = FALSE
  /\ die = FALSE
  /\ \E o \in SeqsUpTo({ "a", LF, CR }, MaxOut), e \in SeqsUpTo({ "e", LF }, MaxErr),
        rc \in ExitCodes :
       prog = [ t \in Targets |->
                  IF t = 1 THEN [ out |-> o, err |-> e, rc |-> rc, chunk |-> 1,
                                  closes |-> TRUE ]
                  ELSE NoProg ]
  /\ spawn_ok \in { [ t \in Targets |-> (t # 1) \/ b ] : b \in BOOLEAN }
  /\ fut = [ t \in Targets |-> IF t = 1 THEN [ NoFuture EXCEPT !.state = "pending" ]
                                ELSE NoFuture ]
  /\ runner = [ t \in Targets |-> NoRunner ]
  /\ child = [ t \in Targets |-> NoChild ]
  /\ pty = [ t \in Targets |-> << << >>, << >> >> ]

NextRun ==
  \/ \E t \in Targets : WorkerStart(t)
  \/ \E t \in Targets : RunLoop(t)
  \/ \E t \in Targets : RunSelectRead(t)
  \/ \E t \in Targets, ch \in Chan : ChildWrite(t, ch)
  \/ \E t \in Targets, ch \in Chan : ChildClose(t, ch)
  \/ \E t \in Targets : ChildExit(t)
  \/ EnvSetDie

SpecRun == InitRun /\ [][NextRun]_vars

(***************************************************************************)
(* main: the arguments for git and the colour setting                      *)
(***************************************************************************)
\* the arguments of the model: the separator, the two colour requests and
\* one other argument
GitArgs == { "--", "--color=never", "--color=always", "-n" }

\* lines 228-232
UseColor(tty, args) ==
  IF InList(args, "--color=never") \/ (~ tty /\ InList(args, "--color=always"))
    THEN FALSE
    ELSE TRUE

\* lines 222-226: a leading "--" is removed
ArgsSeparator ==
  /\ mainPc = "args"
  /\ git_args' = IF git_args # << >> /\ Head(git_args) = "--"
                   THEN Tail(git_args) ELSE git_args
  /\ mainPc' = "color"
  /\ UNCHANGED << findVars, cmd, prefix, use_color, isatty, unbuffered, prog,
                  spawn_ok, runVars, die, pend, exit, consumed, cur, wlog, diag,
                  hist >>

\* lines 228-232
ArgsColor ==
  /\ mainPc = "color"
  /\ use_color' = UseColor(isatty, git_args)
  /\ mainPc' = "build"
  /\ UNCHANGED << findVars, cmd, prefix, git_args, isatty, unbuffered, prog,
                  spawn_ok, runVars, die, pend, exit, consumed, cur, wlog, diag,
                  hist >>

\* line 238 and lines 91-100: grep_command puts "--color=always" and then the
\* default argument "-n" in front of the arguments (use_defaults at its
\* default); default_command leaves them as they are
ArgsBuild ==
  /\ mainPc = "build"
  /\ git_args' = IF cmd = "grep"
                   THEN << "-n" >>
                        \o (IF use_color THEN << "--color=always" >> ELSE << >>)
                        \o git_args
                   ELSE git_args
  /\ mainPc' = "start"
  /\ UNCHANGED << findVars, cmd, prefix, use_color, isatty, unbuffered, prog,
                  spawn_ok, runVars, die, pend, exit, consumed, cur, wlog, diag,
                  hist >>

InitArgs ==
  /\ NoFind
  /\ NoTargets
  /\ mainPc = "args"
  /\ pend = [ code |-> 0, fault |-> "none" ]
  /\ exit = [ code |-> 0, fault |-> "none" ]
  /\ consumed = {}
  /\ cur = [ t |-> 0, s |-> 0, r |-> 0 ]
  /\ wlog = << >>
  /\ diag = << >>
  /\ hist = [ interrupted |-> FALSE, wlenAtDie |-> 0, flushed |-> {},
             epipe |-> 0, devnull |-> {} ]
  /\ cmd \in { "grep", "passthrough" }
  /\ prefix = "None"
  /\ use_color = FALSE
  /\ git_args \in SeqsUpTo(GitArgs, MaxArgs)
  /\ isatty \in BOOLEAN
  /\ unbuffered = FALSE
  /\ die = FALSE

NextArgs == ArgsSeparator \/ ArgsColor \/ ArgsBuild

SpecArgs == InitArgs /\ [][NextArgs]_vars

(***************************************************************************)
(* main: the dispatcher and the output aggregator                          *)
(***************************************************************************)
\* lines 261-264
repo_prefix(t) ==
  IF use_color THEN << COLOR_GREEN >> \o RelPath(t) \o << COLOR_RESET, "/" >>
  ELSE RelPath(t) \o << "/" >>

\* line 266: args.prefix or "repo"
EffPrefix == IF prefix = "None" THEN "repo" ELSE prefix

\* lines 94-95: grep_command replaces a missing --prefix by "line"
CommandPrefix == IF cmd = "grep" /\ prefix = "None" THEN "line" ELSE prefix

\* the futures that were submitted
Submitted_t == { t \in Targets : fut[t].state # "absent" }

\* lines 238-242: the command is built and one future per repo is submitted
MainSubmit ==
  /\ mainPc = "start"
  /\ prefix' = CommandPrefix
  /\ fut' = [ t \in Targets |-> [ fut[t] EXCEPT !.state = "pending" ] ]
  /\ mainPc' = "wait"
  /\ UNCHANGED << findVars, cmd, use_color, git_args, isatty, unbuffered, prog,
                  spawn_ok, runner, child, pty, die, pend, exit, consumed, cur,
                  wlog, diag, hist >>

\* line 254 returning the exit code of a clean run
FatalExitMutant == [ code |-> 0, fault |-> "none" ]

\* line 254: return 1
FatalExit == [ code |-> 1, fault |-> "none" ]

\* line 284 returning the fatal-error code
InterruptExitMutant == [ code |-> 1, fault |-> "none" ]

\* line 284: return 2
InterruptExit == [ code |-> 2, fault |-> "none" ]

\* lines 267-268: the write of the header line
HeaderWrites(t) ==
  IF EffPrefix = "repo"
    THEN << [ s |-> 1, t |-> t, b |-> repo_prefix(t) \o << LF >> ] >>
    ELSE << >>

\* lines 273-275 prefixing the records of stdout only
RecordWritesMutant(s, t, result) ==
  (IF EffPrefix = "line" /\ s = 1
     THEN << [ s |-> s, t |-> t, b |-> repo_prefix(t) ] >> ELSE << >>)
  \o << [ s |-> s, t |-> t, b |-> result ] >>

\* lines 273-275: the writes made for one record of stream s
RecordWrites(s, t, result) ==
  (IF EffPrefix = "line"
     THEN << [ s |-> s, t |-> t, b |-> repo_prefix(t) ] >> ELSE << >>)
  \o << [ s |-> s, t |-> t, b |-> result ] >>

\* lines 252-253 cancelling nothing
CancelAllMutant(f) == f

\* Future.cancel() on every future: only one that is not running is cancelled
CancelAll(f) ==
  [ t \in Targets |-> IF f[t].state = "pending"
                        THEN [ f[t] EXCEPT !.state = "cancelled" ] ELSE f[t] ]

\* the loop of line 244 taking the next result while the records of the
\* current one are still being written
MainConsumeMutant(t) ==
  /\ mainPc \in { "wait", "write" }
  /\ fut[t].state = "finished"
  /\ fut[t].kind = "result"
  /\ t \notin consumed
  /\ consumed' = consumed \cup {t}
  /\ cur' = [ t |-> t, s |-> 0, r |-> 0 ]
  /\ mainPc' = "header"
  /\ UNCHANGED << findVars, argVars, runVars, die, pend, exit, wlog, diag, hist >>

\* lines 244-259: as_completed yields the finished future of t
MainConsume(t) ==
  /\ mainPc = "wait"
  /\ fut[t].state = "finished"
  /\ t \notin consumed
  /\ consumed' = consumed \cup {t}
  /\ CASE fut[t].kind = "GitError" ->
            \* lines 249-251: the diagnostic, die.set()
            /\ diag' = Append(diag, t)
            /\ die' = TRUE
            /\ mainPc' = "cancel"
            /\ hist' = [ hist EXCEPT !.wlenAtDie = Len(wlog) ]
            /\ UNCHANGED << fut, pend, cur >>
       [] fut[t].kind = "OSError" ->
            \* not a GitError: the exception leaves main
            /\ pend' = [ code |-> 1, fault |-> "OSError" ]
            /\ mainPc' = "join"
            /\ UNCHANGED << diag, die, fut, hist, cur >>
       [] fut[t].kind = "None" ->
            UNCHANGED << diag, die, fut, pend, mainPc, hist, cur >>
       [] OTHER ->
            /\ cur' = [ t |-> t, s |-> 0, r |-> 0 ]
            /\ mainPc' = "header"
            /\ UNCHANGED << diag, die, fut, pend, hist >>
  /\ UNCHANGED << findVars, argVars, runner, child, pty, exit, wlog >>

\* lines 278-280: the handler of BrokenPipeError raised on stream s
BrokenPipeHandled(s) ==
  /\ pend' = [ code |-> 1, fault |-> "SystemExit" ]
  /\ mainPc' = "join"
  /\ hist' = [ hist EXCEPT !.epipe = s, !.devnull = @ \cup { s } ]

\* lines 252-254: every future is cancelled, then `return 1`
MainCancel ==
  /\ mainPc = "cancel"
  /\ fut' = CancelAll(fut)
  /\ pend' = FatalExit
  /\ mainPc' = "join"
  /\ UNCHANGED << findVars, argVars, runner, child, pty, die, exit, consumed,
                  cur, wlog, diag, hist >>

\* lines 266-268: the header line of prefix mode "repo".  The write is made
\* before the try statement of line 271 is entered: on a raw stdout whose
\* reader has gone it raises BrokenPipeError, which no handler of main takes.
AggHeader ==
  /\ mainPc = "header"
  /\ \/ /\ wlog' = wlog \o HeaderWrites(cur.t)
        /\ cur' = [ cur EXCEPT !.s = 1, !.r = 1 ]
        /\ mainPc' = "write"
        /\ UNCHANGED << pend, hist >>
     \/ /\ unbuffered
        /\ HeaderWrites(cur.t) # << >>
        /\ pend' = [ code |-> 1, fault |-> "BrokenPipeError" ]
        /\ mainPc' = "join"
        /\ hist' = [ hist EXCEPT !.epipe = 1 ]
        /\ UNCHANGED << wlog, cur >>
  /\ UNCHANGED << findVars, argVars, runVars, die, exit, consumed, diag >>

\* zip pairing stdout with the stderr records and stderr with the stdout ones
OutputMutant == IF cur.s = 1 THEN fut[cur.t].err ELSE fut[cur.t].out

\* zip(results, (sys.stdout, sys.stderr)): the records of the current stream
Output == IF cur.s = 1 THEN fut[cur.t].out ELSE fut[cur.t].err

\* lines 272-275: one record of the current stream.  On a raw stream whose
\* reader has gone one of the writes raises BrokenPipeError, inside the try.
AggWrite ==
  /\ mainPc = "write"
  /\ cur.r <= Len(Output)
  /\ LET writes == RecordWrites(cur.s, cur.t, Output[cur.r])
     IN  \/ /\ wlog' = wlog \o writes
            /\ cur' = [ cur EXCEPT !.r = @ + 1 ]
            /\ UNCHANGED << mainPc, pend, hist >>
         \/ /\ unbuffered
            /\ \E k \in 0..(Len(writes) - 1) : wlog' = wlog \o SubSeq(writes, 1, k)
            /\ BrokenPipeHandled(cur.s)
            /\ UNCHANGED cur
  /\ UNCHANGED << findVars, argVars, runVars, die, exit, consumed, diag >>

\* lines 276-280: the flush after the last record; the downstream reader may
\* have closed the pipe
AggFlush ==
  /\ mainPc = "write"
  /\ cur.r > Len(Output)
  /\ \/ /\ IF cur.s = 1
             THEN /\ cur' = [ cur EXCEPT !.s = 2, !.r = 1 ]
                  /\ UNCHANGED mainPc
             ELSE /\ mainPc' = "wait"
                  /\ UNCHANGED cur
        /\ hist' = [ hist EXCEPT !.flushed = @ \cup { << cur.t, cur.s >> } ]
        /\ UNCHANGED pend
     \/ \* BrokenPipeError: dup2 of devnull, SystemExit(1)
        /\ ~ unbuffered
        /\ BrokenPipeHandled(cur.s)
        /\ UNCHANGED cur
  /\ UNCHANGED << findVars, argVars, runVars, die, exit, consumed, wlog, diag >>

\* line 244: as_completed is exhausted, the loop ends; line 286
MainLoopEnd ==
  /\ mainPc = "wait"
  /\ consumed = Submitted_t
  /\ pend' = [ code |-> 0, fault |-> "none" ]
  /\ mainPc' = "join"
  /\ UNCHANGED << findVars, argVars, runVars, die, exit, consumed, cur, wlog,
                  diag, hist >>

\* lines 282-284: a KeyboardInterrupt is raised in the main thread
MainInterrupt ==
  /\ mainPc \in { "start", "wait", "cancel", "header", "write", "join" }
  /\ ~ hist.interrupted
  /\ pend' = InterruptExit
  /\ mainPc' = "join"
  /\ hist' = [ hist EXCEPT !.interrupted = TRUE ]
  /\ UNCHANGED << findVars, argVars, runVars, die, exit, consumed, cur, wlog,
                  diag >>

\* line 241: leaving the with block is ThreadPoolExecutor.shutdown(wait=True),
\* which returns when no future is queued or running
MainJoin ==
  /\ mainPc = "join"
  /\ \A t \in Targets : fut[t].state \notin { "pending", "running" }
  /\ exit' = pend
  /\ mainPc' = "done"
  /\ UNCHANGED << findVars, argVars, runVars, die, pend, consumed, cur, wlog,
                  diag, hist >>

\* the child programs of the dispatcher model; each writes a stream in one
\* write call, and the fourth may close its channels before it exits
MainProgs ==
  { [ out |-> << "a", LF >>, err |-> << >>, rc |-> 0, chunk |-> 2, closes |-> FALSE ],
    [ out |-> << >>, err |-> << "e", LF >>, rc |-> 2, chunk |-> 2, closes |-> FALSE ],
    [ out |-> << >>, err |-> << >>, rc |-> 1, chunk |-> 2, closes |-> FALSE ],
    [ out |-> << "a", LF >>, err |-> << "e", LF >>, rc |-> 0, chunk |-> 2, closes |-> TRUE ],
    [ out |-> << >>, err |-> << >>, rc |-> 0, chunk |-> 2, closes |-> FALSE ],
    [ out |-> << >>, err |-> << >>, rc |-> 128, chunk |-> 2, closes |-> FALSE ] }

InitMain ==
  /\ mainPc \in { "start", "wait" }
  /\ pend = [ code |-> 0, fault |-> "none" ]
  /\ exit = [ code |-> 0, fault |-> "none" ]
  /\ consumed = {}
  /\ cur = [ t |-> 0, s |-> 0, r |-> 0 ]
  /\ wlog = << >>
  /\ diag = << >>
  /\ hist = [ interrupted |-> FALSE, wlenAtDie |-> 0, flushed |-> {},
             epipe |-> 0, devnull |-> {} ]

Init ==
  /\ NoFind
  /\ InitMain
  /\ mainPc = "start"
  /\ cmd \in { "grep", "passthrough" }
  /\ prefix \in { "None", "no" }
  /\ use_color = FALSE
  /\ git_args = << "--color=never" >>
  /\ isatty = FALSE
  /\ unbuffered = FALSE
  /\ die = FALSE
  /\ prog \in [ Targets -> MainProgs ]
  /\ spawn_ok = [ t \in Targets |-> TRUE ]
  /\ fut = [ t \in Targets |-> NoFuture ]
  /\ runner = [ t \in Targets |-> NoRunner ]
  /\ child = [ t \in Targets |-> NoChild ]
  /\ pty = [ t \in Targets |-> << << >>, << >> >> ]

Next ==
  \/ MainSubmit
  \/ \E t \in Targets : MainConsume(t)
  \/ MainCancel
  \/ AggHeader
  \/ AggWrite
  \/ AggFlush
  \/ MainLoopEnd
  \/ MainInterrupt
  \/ MainJoin
  \/ \E t \in Targets : WorkerStart(t)
  \/ \E t \in Targets : RunLoop(t)
  \/ \E t \in Targets : RunSelectRead(t)
  \/ \E t \in Targets, ch \in Chan : ChildWrite(t, ch)
  \/ \E t \in Targets, ch \in Chan : ChildClose(t, ch)
  \/ \E t \in Targets : ChildExit(t)

Spec == Init /\ [][Next]_vars

\* the steps of the main thread, the interrupt apart
MainStep ==
  \/ MainSubmit
  \/ \E t \in Targets : MainConsume(t)
  \/ MainCancel
  \/ AggHeader
  \/ AggWrite
  \/ AggFlush
  \/ MainLoopEnd
  \/ MainJoin

\* the steps of the pool thread that runs the future of t
WorkerStep(t) == WorkerStart(t) \/ RunLoop(t) \/ RunSelectRead(t)

InitFair ==
  /\ Init
  /\ cmd = "passthrough"
  /\ prefix = "None"
  /\ \A t \in Targets : prog[t].rc # 1 /\ (prog[t].rc = 0 => prog[t].closes)

\* a run in which the user sends no interrupt
NextQuiet ==
  \/ MainStep
  \/ \E t \in Targets : WorkerStep(t)
  \/ \E t \in Targets, ch \in Chan : ChildWrite(t, ch)
  \/ \E t \in Targets, ch \in Chan : ChildClose(t, ch)
  \/ \E t \in Targets : ChildExit(t)

\* The main thread and every pool thread are scheduled again and again.
\* Nothing makes a child write, close or exit.
FairSpec ==
  /\ InitFair
  /\ [][NextQuiet]_vars
  /\ WF_vars(MainStep)
  /\ \A t \in Targets : WF_vars(WorkerStep(t))

(***************************************************************************)
(* The aggregation of one finished future, for every result run_git can    *)
(* return on streams of up to MaxAggOut and MaxAggErr bytes                *)
(***************************************************************************)
InitAgg ==
  /\ NoFind
  /\ cmd \in { "grep", "passthrough" }
  /\ prefix \in { "None", "repo", "line", "no" }
  /\ prefix = CommandPrefix
  /\ use_color \in BOOLEAN
  /\ git_args = (IF use_color THEN << >> ELSE << "--color=never" >>)
  /\ isatty = FALSE
  /\ unbuffered \in BOOLEAN
  /\ die = FALSE
  /\ spawn_ok = [ t \in Targets |-> TRUE ]
  /\ \E o \in SeqsUpTo({ "a", LF }, MaxAggOut), e \in SeqsUpTo({ "e", LF }, MaxAggErr),
        rc \in { 0, 1, 2 } :
       LET results == << PtyOut(o), PtyOut(e) >>
       IN  /\ prog = [ t \in Targets |->
                  IF t = 1 THEN [ out |-> o, err |-> e, rc |-> rc, chunk |-> 1,
                                  closes |-> FALSE ]
                  ELSE NoProg ]
           /\ fut = [ t \in Targets |->
                  IF t = 1 THEN Outcome(Classify(rc), results) ELSE NoFuture ]
           /\ runner = [ t \in Targets |->
                  IF t = 1 THEN [ pc |-> "done", readable |-> << >>,
                                  results |-> results, returncode |-> rc,
                                  fds |-> {},
                                  nclose |-> [ fd \in Masters \cup Slaves |-> 1 ],
                                  late |-> FALSE ]
                  ELSE NoRunner ]
  /\ child = [ t \in Targets |->
                IF t = 1 THEN [ NoChild EXCEPT !.st = "exited" ] ELSE NoChild ]
  /\ pty = [ t \in Targets |-> << << >>, << >> >> ]
  /\ InitMain
  /\ mainPc = "wait"

NextAgg ==
  \/ \E t \in Targets : MainConsume(t)
  \/ MainCancel
  \/ AggHeader
  \/ AggWrite
  \/ AggFlush
  \/ MainLoopEnd
  \/ MainInterrupt
  \/ MainJoin

SpecAgg == InitAgg /\ [][NextAgg]_vars

(***************************************************************************)
(* Reference definitions for the locator                                   *)
(***************************************************************************)
Range(s) == { s[i] : i \in 1..Len(s) }

\* directories at most `depth` levels below the root that pass the probe and
\* lie below no other directory that passes it
Located ==
  { d \in tree : /\ Len(d) <= depth
                 /\ d \in isRepo
                 /\ \A p \in tree : IsProperPrefix(p, d) => p \notin isRepo }

\* the sequential locator: a repository is returned and not descended into
RECURSIVE Locate(_, _)
Locate(d, budget) ==
  IF d \in isRepo THEN {d}
  ELSE IF budget < 1 THEN {}
  ELSE UNION { Locate(c, budget - 1) : c \in SubDirs(d) }

\* C5: whenever find_git_repos has returned, the directories it returns are
\* exactly those within `depth` levels of the root that pass the probe and
\* have no ancestor passing it; root passing gives {root}; depth < 1 with a
\* non-repository root gives the empty result; no returned directory is an
\* ancestor of another.
C5_LocateExact ==
  fpc = "done" =>
    /\ Range(repos) = Located
    /\ (Root \in isRepo => repos = << Root >>)
    /\ (depth < 1 /\ Root \notin isRepo => repos = << >>)
    /\ \A a, b \in Range(repos) : ~ IsProperPrefix(a, b)

\* the scenario /work, /work/a (repo), /work/b (no repo), /work/b/c (repo),
\* depth 2, has returned {/work/a, /work/b/c}
C5_Witness ==
  /\ fpc = "done"
  /\ tree = { <<>>, <<1>>, <<2>>, <<2, 1>> }
  /\ isRepo = { <<1>>, <<2, 1>> }
  /\ depth = 2
  /\ Range(repos) = { <<1>>, <<2, 1>> }

\* C6: under every completion order the returned list holds each directory
\* at most once and the same set as the sequential locator; the result of
\* every probe future is taken at most once, and exactly once for every
\* future submitted when the function has returned; the function can always
\* take a step until it has returned.
C6_OrderIndependent ==
  /\ \A i, j \in 1..Len(repos) : repos[i] = repos[j] => i = j
  /\ \A d \in AllDirs : consumed_n[d] <= 1
  /\ fpc = "done" =>
       /\ Range(repos) = Locate(Root, depth)
       /\ DOMAIN futures_repo_map = {}
       /\ \A d \in probed : consumed_n[d] = 1
  /\ fpc # "done" => ENABLED NextFind

\* two probes completed in the order opposite to their submission and both
\* were found to be repositories
C6_Witness ==
  /\ fpc = "done"
  /\ Len(repos) = 2
  /\ repos[1] = <<2>>
  /\ repos[2] = <<1>>

\* C6 (termination): under fair scheduling find_git_repos returns
C6_Terminates == <>(fpc = "done")

(***************************************************************************)
(* git-rgrep.py: the sequential variant's classification of an exit status *)
(***************************************************************************)
\* git_grep, lines 56-62
git_grep(returncode) ==
  IF returncode = 0 THEN "result"
  ELSE IF returncode = 1 THEN "None"
  ELSE "GitError"

(***************************************************************************)
(* Reference definitions for the dispatcher and the aggregator             *)
(***************************************************************************)
\* the bytes of the buffer.write calls made for target t on stream s, in order
RECURSIVE BytesOf(_, _, _)
BytesOf(log, s, t) ==
  IF log = << >> THEN << >>
  ELSE (IF Head(log).s = s /\ Head(log).t = t THEN Head(log).b ELSE << >>)
       \o BytesOf(Tail(log), s, t)

Written(s, t) == BytesOf(wlog, s, t)

\* every record preceded by p
RECURSIVE Prefixed(_, _)
Prefixed(p, records) ==
  IF records = << >> THEN << >>
  ELSE p \o Head(records) \o Prefixed(p, Tail(records))

\* the uncoloured prefix of a target: its relative path and a slash
PlainPrefix(t) == RelPath(t) \o << "/" >>

\* the exit status of the child's program is neither ok nor ignored
FatalCode(rc) == rc # 0 /\ ~ (cmd = "grep" /\ rc = 1)

(***************************************************************************)
(* Claims                                                                  *)
(***************************************************************************)
\* C1, as claimed: whenever main has ended and some target's run_git raised
\* GitError, the exit code is 1; and once die is set the aggregation loop
\* writes nothing more.
C1_FatalExitCode ==
  /\ (mainPc = "done" /\ \E t \in Targets : fut[t].kind = "GitError")
       => exit.code = 1
  /\ die => Len(wlog) = hist.wlenAtDie

\* C1, amended: whenever main has ended without a KeyboardInterrupt and some
\* target's run_git raised GitError, the exit code is 1; and once die is set
\* the aggregation loop has been left and writes nothing more.
C1_FatalExitCodeUninterrupted ==
  /\ (mainPc = "done" /\ ~ hist.interrupted
        /\ \E t \in Targets : fut[t].kind = "GitError")
       => exit.code = 1
  /\ die => /\ Len(wlog) = hist.wlenAtDie
            /\ mainPc \in { "cancel", "join", "done" }

\* a fatal error ended the run with code 1 while another target, whose child
\* had output to give, was cancelled in flight and wrote nothing
C1_Witness ==
  /\ mainPc = "done"
  /\ die
  /\ exit.code = 1
  /\ ~ hist.interrupted
  /\ \E t \in Targets : /\ child[t].sigint
                        /\ prog[t].out # << >>
                        /\ Written(1, t) = << >>

\* C2: a run_git whose child exited by itself and that was not cancelled
\* returns a result for exit code 0, returns None for exit code 1 under the
\* grep command and raises GitError for it under the passthrough command,
\* and raises GitError for every other code; git-rgrep.py classifies as the
\* grep command does; a GitError taken by the dispatcher sets die.
C2_ExitCodeClassification ==
  \A t \in Targets :
    (fut[t].state = "finished" /\ child[t].st = "exited" /\ ~ child[t].sigint) =>
      LET rc == prog[t].rc
      IN  /\ runner[t].returncode = rc
          /\ rc = 0 => /\ fut[t].kind = "result"
                       /\ fut[t].out = splitlines(runner[t].results[1])
                       /\ fut[t].err = splitlines(runner[t].results[2])
          /\ rc = 1 => fut[t].kind = (IF cmd = "grep" THEN "None" ELSE "GitError")
          /\ rc \notin { 0, 1 } => fut[t].kind = "GitError"
          /\ cmd = "grep" => fut[t].kind = git_grep(rc)
          /\ (fut[t].kind = "GitError" /\ t \in consumed) => die

\* under the passthrough command a child exited with 1 and the dispatcher
\* took the GitError and set die
C2_Witness ==
  \E t \in Targets :
    /\ cmd = "passthrough"
    /\ prog[t].rc = 1
    /\ child[t].st = "exited"
    /\ ~ child[t].sigint
    /\ fut[t].kind = "GitError"
    /\ t \in consumed
    /\ die

\* C3: once a fatal completion has been taken (die is set), main eventually
\* returns with exit code 1, whatever the children of the other targets do
\* or do not do.
C3_ReturnsAfterFatal ==
  die ~> (mainPc = "done" /\ exit.code = 1)

\* C4: die is never cleared, and every run_git in flight while die is set
\* eventually returns None with its child no longer alive.
C4_FlagObserved ==
  /\ [][die => die']_vars
  /\ \A t \in Targets :
       (die /\ fut[t].state = "running")
         ~> (fut[t].state = "finished" /\ fut[t].kind = "None"
               /\ child[t].st # "alive")

\* C7: once both streams of a target's result are written and flushed:
\* in mode "line" every record of stdout and of stderr is preceded by the
\* prefix, which without colour is the relative path and a slash, and
\* nothing else is written; in mode "repo" stdout gets the header line and
\* then the records unprefixed; in mode "no" the bytes written are the
\* bytes captured.
C7_PrefixModes ==
  \A t \in Targets :
    << t, 2 >> \in hist.flushed =>
      LET out == fut[t].out
          err == fut[t].err
          pfx == IF use_color
                   THEN << COLOR_GREEN >> \o RelPath(t) \o << COLOR_RESET, "/" >>
                   ELSE PlainPrefix(t)
          mine == SelectSeq(wlog, LAMBDA w : w.t = t)
      IN  /\ prefix = "line" =>
               /\ Written(1, t) = Prefixed(pfx, out)
               /\ Written(2, t) = Prefixed(pfx, err)
               /\ Len(mine) = 2 * (Len(out) + Len(err))
               /\ \A i \in 1..Len(mine) :
                    IF i % 2 = 1
                      THEN mine[i].b = pfx /\ mine[i].s = mine[i + 1].s
                      ELSE mine[i].b = (out \o err)[i \div 2]
          /\ prefix = "repo" =>
               /\ Written(1, t) = pfx \o << LF >> \o Join(out)
               /\ Written(2, t) = Join(err)
               /\ Len(mine) = 1 + Len(out) + Len(err)
          /\ prefix = "no" =>
               /\ Written(1, t) = runner[t].results[1]
               /\ Written(2, t) = runner[t].results[2]
               /\ mine = [ i \in 1..(Len(out) + Len(err)) |->
                            [ s |-> IF i <= Len(out) THEN 1 ELSE 2, t |-> t,
                              b |-> (out \o err)[i] ] ]

\* target foo/bar, a two-line stdout, an empty stderr, no colour, mode
\* "line": exactly the prefix and the line, twice, were written to stdout
C7_Witness ==
  /\ << 1, 2 >> \in hist.flushed
  /\ prefix = "line"
  /\ ~ use_color
  /\ Len(fut[1].out) = 2
  /\ fut[1].err = << >>
  /\ wlog = << [ s |-> 1, t |-> 1, b |-> << "foo/bar", "/" >> ],
               [ s |-> 1, t |-> 1, b |-> fut[1].out[1] ],
               [ s |-> 1, t |-> 1, b |-> << "foo/bar", "/" >> ],
               [ s |-> 1, t |-> 1, b |-> fut[1].out[2] ] >>

\* C8: whenever run_git returned a result, the stdout records joined are
\* the bytes the child wrote to its stdout, and likewise for stderr.
C8_RoundTrip ==
  \A t \in Targets :
    fut[t].kind = "result" =>
      /\ Join(fut[t].out) = prog[t].out
      /\ Join(fut[t].err) = prog[t].err

\* what does hold of run_git: the records joined are the bytes the master
\* ends delivered, whatever the split into reads
CaptureOfMaster ==
  \A t \in Targets :
    fut[t].kind = "result" =>
      /\ Join(fut[t].out) = PtyOut(prog[t].out)
      /\ Join(fut[t].err) = PtyOut(prog[t].err)

\* C9: whenever main has ended in a run without interrupt and broken pipe
\* in which no child's program exits with a fatal code, the exit code is 0,
\* every target's command was run, every result was written exactly once,
\* and nothing was written for a target without a result.
C9_CleanRun ==
  (/\ mainPc = "done"
   /\ ~ hist.interrupted
   /\ exit.fault = "none"
   /\ \A t \in Targets : ~ FatalCode(prog[t].rc))
  => /\ exit.code = 0
     /\ \A t \in Targets :
          /\ runner[t].pc = "done"
          /\ child[t].st # "unborn"
          /\ t \in consumed
          /\ fut[t].kind = "result" =>
               /\ { << t, 1 >>, << t, 2 >> } \subseteq hist.flushed
               /\ Len(SelectSeq(wlog, LAMBDA w : w.t = t /\ w.b # repo_prefix(t)
                                             /\ w.b # repo_prefix(t) \o << LF >>))
                    = Len(fut[t].out) + Len(fut[t].err)
          /\ fut[t].kind # "result" => SelectSeq(wlog, LAMBDA w : w.t = t) = << >>

\* what does hold of main: the same with "fatal" read as "run_git raised"
CleanRunOfOutcomes ==
  (/\ mainPc = "done"
   /\ ~ hist.interrupted
   /\ exit.fault = "none"
   /\ \A t \in Targets : fut[t].kind # "GitError")
  => /\ exit.code = 0
     /\ \A t \in Targets :
          /\ runner[t].pc = "done"
          /\ t \in consumed
          /\ fut[t].kind = "result" =>
               { << t, 1 >>, << t, 2 >> } \subseteq hist.flushed
          /\ fut[t].kind # "result" => SelectSeq(wlog, LAMBDA w : w.t = t) = << >>

\* C10: whenever main has ended after a KeyboardInterrupt, it returned 2,
\* which is not the fatal-error code, and no exception left main.
C10_InterruptExit ==
  (mainPc = "done" /\ hist.interrupted) =>
    /\ exit.code = 2
    /\ exit.fault = "none"
    /\ exit.code # FatalExit.code

\* the interrupt arrived while the GitError of a target was waiting to be
\* taken, and main returned 2
C10_Witness ==
  /\ mainPc = "done"
  /\ hist.interrupted
  /\ exit.code = 2
  /\ ~ die
  /\ \E t \in Targets : fut[t].kind = "GitError"

\* C11: whenever main has ended, without interrupt, after a write or flush
\* of the aggregator met a broken pipe, the stream was redirected to
\* os.devnull and the process ended by SystemExit(1); no exception other
\* than SystemExit left main.
C11_BrokenPipeHandled ==
  (mainPc = "done" /\ hist.epipe # 0 /\ ~ hist.interrupted) =>
    /\ exit = [ code |-> 1, fault |-> "SystemExit" ]
    /\ hist.epipe \in hist.devnull

\* what does hold of main: a broken pipe met inside the try statement of
\* line 271 (a record write or the flush) is redirected and ends the process
BrokenPipeInTry ==
  (mainPc = "done" /\ hist.epipe # 0 /\ ~ hist.interrupted
     /\ exit.fault # "BrokenPipeError") =>
    /\ exit = [ code |-> 1, fault |-> "SystemExit" ]
    /\ hist.epipe \in hist.devnull

\* C12: whenever a call of run_git has returned or raised, each of the six
\* descriptors it opened has been closed exactly once, none is left open,
\* and the child, if it was started, is not alive.
C12_DescriptorsClosed ==
  \A t \in Targets :
    runner[t].pc = "done" =>
      /\ runner[t].fds = {}
      /\ \A fd \in Masters \cup Slaves : runner[t].nclose[fd] = 1
      /\ child[t].st # "alive"

\* what does hold of run_git: the same on the exit paths after Popen succeeded
DescriptorsClosedAfterPopen ==
  \A t \in Targets :
    (runner[t].pc = "done" /\ spawn_ok[t]) =>
      /\ runner[t].fds = {}
      /\ \A fd \in Masters \cup Slaves : runner[t].nclose[fd] = 1
      /\ child[t].st # "alive"

\* the locator that takes a probe that cannot run for "not a repository"
RECURSIVE LocateBestEffort(_, _)
LocateBestEffort(d, budget) ==
  IF d \in isRepo /\ d \notin probeErr THEN {d}
  ELSE IF budget < 1 THEN {}
  ELSE UNION { LocateBestEffort(c, budget - 1) : c \in SubDirs(d) }

\* C13: no exception of a probe leaves find_git_repos, and whenever it has
\* returned, the result is that of the locator which takes a probe that
\* cannot run for "not a repository".
C13_ProbeErrorAbsorbed ==
  /\ fpc # "raised"
  /\ fpc = "done" => Range(repos) = LocateBestEffort(Root, depth)

\* C14: once the colour setting is computed: it is off whenever the
\* arguments contain --color=never; otherwise it is on whenever they contain
\* --color=always, terminal or not, and on whenever stdout is a terminal.
C14_ColorSetting ==
  mainPc = "build" =>
    LET never == InList(git_args, "--color=never")
        always == InList(git_args, "--color=always")
    IN  /\ never => ~ use_color
        /\ (always /\ ~ never) => use_color
        /\ (isatty /\ ~ never) => use_color

\* what does hold of main: --color=always switches the setting off when
\* stdout is not a terminal, and without either argument the setting is on
ColorSettingAsCoded ==
  mainPc = "build" =>
    LET never == InList(git_args, "--color=never")
        always == InList(git_args, "--color=always")
    IN  use_color = (~ never /\ (isatty \/ ~ always))

\* C15: whenever run_git has ended for a started, non-cancelled child whose
\* program exits with an ok code, it returned a result, and the exit status
\* it classified is the child's own.
C15_WaitsForExitStatus ==
  \A t \in Targets :
    (/\ fut[t].state = "finished"
     /\ child[t].st # "unborn"
     /\ ~ child[t].sigint
     /\ prog[t].rc \in ok_returncodes)
    => /\ fut[t].kind = "result"
       /\ runner[t].returncode = prog[t].rc

\* what does hold of run_git: the status classified is the child's own when
\* the child had exited before line 156 polled it, and -SIGKILL otherwise
StatusAtPoll ==
  \A t \in Targets :
    (fut[t].state = "finished" /\ child[t].st # "unborn") =>
      /\ child[t].st = "exited" => runner[t].returncode = prog[t].rc
      /\ child[t].st = "killed" => runner[t].returncode = 0 - SIGKILL
      /\ child[t].st \in { "exited", "killed" }

\* C16: no step of a runner reads a channel or appends to a buffer while
\* die is set, and a runner that has seen die set has signalled its child
\* and returned None.
C16_FlagCheckedOnWakeup ==
  /\ [][\A t \in Targets : die => ~ RunSelectRead(t)]_vars
  /\ [](\A t \in Targets : child[t].sigint => fut[t].kind = "None")

\* what does hold of run_git: the flag is tested before each wait, and a
\* runner that sees it set signals its child and returns None with the
\* child no longer alive
CancelledReturnsNone ==
  \A t \in Targets :
    child[t].sigint => /\ fut[t].state = "finished"
                       /\ fut[t].kind = "None"
                       /\ child[t].st # "alive"

\* the buffer.write calls made for target t
WritesOf(t) == SelectSeq(wlog, LAMBDA w : w.t = t)

\* run_git returned two empty lists for t
EmptyResult(t) ==
  fut[t].kind = "result" /\ fut[t].out = << >> /\ fut[t].err = << >>

\* C17: nothing is ever written, in any prefix mode, for a target whose
\* runner returned None or whose ok result has empty stdout and stderr.
C17_NothingForEmpty ==
  \A t \in Targets :
    (fut[t].kind = "None" \/ EmptyResult(t)) => WritesOf(t) = << >>

\* what does hold of main: nothing is written for a target without result,
\* and for an empty result nothing but the header line of mode "repo"
NothingButHeaderForEmpty ==
  \A t \in Targets :
    /\ fut[t].kind \in { "none", "None", "GitError" } => WritesOf(t) = << >>
    /\ EmptyResult(t) =>
         \/ WritesOf(t) = << >>
         \/ /\ EffPrefix = "repo"
            /\ WritesOf(t) = << [ s |-> 1, t |-> t, b |-> repo_prefix(t) \o << LF >> ] >>

\* the records written for target t on stream s, in the order of the writes:
\* the writes of the prefix and of the header line are left out
RecordsOf(s, t) ==
  LET ws == SelectSeq(wlog, LAMBDA w : /\ w.t = t
                                       /\ w.s = s
                                       /\ w.b # repo_prefix(t)
                                       /\ w.b # repo_prefix(t) \o << LF >>)
  IN  [ i \in 1..Len(ws) |-> ws[i].b ]

\* a is an initial part of b
StartOf(a, b) == Len(a) <= Len(b) /\ a = SubSeq(b, 1, Len(a))

\* C18: at every moment, for every target: no write to stdout follows a
\* write to stderr; a write to stderr is made only after all stdout records
\* are written and stdout is flushed; and the records written on a stream
\* are an initial part of the captured records, all of them once the stream
\* is flushed.
C18_StreamOrder ==
  \A t \in Targets :
    LET mine == WritesOf(t)
    IN  /\ \A i, j \in 1..Len(mine) : i < j => mine[i].s <= mine[j].s
        /\ (\E i \in 1..Len(mine) : mine[i].s = 2) =>
              /\ << t, 1 >> \in hist.flushed
              /\ RecordsOf(1, t) = fut[t].out
        /\ StartOf(RecordsOf(1, t), fut[t].out)
        /\ StartOf(RecordsOf(2, t), fut[t].err)
        /\ << t, 1 >> \in hist.flushed => RecordsOf(1, t) = fut[t].out
        /\ << t, 2 >> \in hist.flushed => RecordsOf(2, t) = fut[t].err

\* in mode "line" two different stdout records and one stderr record of
\* target 1 were written and both streams flushed
C18_Witness ==
  /\ prefix = "line"
  /\ << 1, 2 >> \in hist.flushed
  /\ Len(fut[1].out) = 2
  /\ fut[1].out[1] # fut[1].out[2]
  /\ Len(fut[1].err) = 1
  /\ RecordsOf(1, 1) = fut[1].out
  /\ RecordsOf(2, 1) = fut[1].err

\* C19: at most one diagnostic is printed, and once die is set exactly one,
\* naming the target whose GitError was taken; when main has gone on past
\* the cancelling loop no future is left waiting to be started; a cancelled
\* future never launches a child; a run_git call that began after die was
\* set never waits in select, returns None and leaves no live child.
C19_CancelOnFatal ==
  /\ Len(diag) <= 1
  /\ die => /\ Len(diag) = 1
            /\ diag[1] \in consumed
            /\ fut[diag[1]].kind = "GitError"
  /\ (die /\ mainPc \in { "join", "done" } /\ ~ hist.interrupted) =>
       \A t \in Targets : fut[t].state # "pending"
  /\ \A t \in Targets :
       /\ fut[t].state = "cancelled" =>
            /\ child[t].st = "unborn"
            /\ runner[t].pc = "idle"
       /\ runner[t].late =>
            /\ runner[t].pc \in { "loop", "done" }
            /\ fut[t].state = "finished" =>
                 /\ fut[t].kind = "None"
                 /\ child[t].st \in { "killed", "exited" }

\* a worker took the future of a target between die.set() and the
\* cancelling loop: its child was launched, signalled and killed, it
\* returned None, and main returned 1 after one diagnostic
C19_Witness ==
  /\ mainPc = "done"
  /\ exit.code = 1
  /\ ~ hist.interrupted
  /\ Len(diag) = 1
  /\ \E t \in Targets : /\ runner[t].late
                        /\ fut[t].kind = "None"
                        /\ child[t].st = "killed"
                        /\ child[t].sigint

\* C20: at every moment the writes of each target are one contiguous block
\* of the write log, hence of stdout and of stderr, and when a write for
\* another target follows, the earlier target's prefix and records have
\* been written completely and both its streams flushed.
C20_NoInterleaving ==
  /\ \A i, j, k \in 1..Len(wlog) :
       (i < j /\ j < k /\ wlog[i].t = wlog[k].t) => wlog[j].t = wlog[i].t
  /\ \A i, j \in 1..Len(wlog) :
       (i < j /\ wlog[i].t # wlog[j].t) =>
         LET t == wlog[i].t
         IN  /\ { << t, 1 >>, << t, 2 >> } \subseteq hist.flushed
             /\ RecordsOf(1, t) = fut[t].out
             /\ RecordsOf(2, t) = fut[t].err

\* target 2 completed and was written first, stdout and stderr, then
\* target 1, and main returned 0
C20_Witness ==
  /\ mainPc = "done"
  /\ exit = [ code |-> 0, fault |-> "none" ]
  /\ wlog # << >>
  /\ wlog[1].t = 2
  /\ wlog[Len(wlog)].t = 1
  /\ \E i \in 1..Len(wlog) : wlog[i].t = 2 /\ wlog[i].s = 2
  /\ \A t \in Targets : { << t, 1 >>, << t, 2 >> } \subseteq hist.flushed

====
